---- MODULE Spec2Model ----
(***************************************************************************)
(* Class-based views of app/views/__init__.py and the greeting demo app.   *)
(*                                                                         *)
(* A behaviour is one deployed handler (a view subclass with its class     *)
(* attributes, or the demo's greeting_user) serving a sequence of requests.*)
(* Each request is handled by a fresh view instance; the whole of          *)
(* dispatch_request, with every method it calls, is one action.  Methods   *)
(* are operators on an execution context x that carries the instance       *)
(* attributes, the ordered log of the calls made, the flashed messages,    *)
(* the records held by the persistence session, a raised exception (which  *)
(* makes every later statement a no-op) and the value returned.            *)
(***************************************************************************)
EXTENDS Integers, Sequences, FiniteSets, TLC

\* Number of records the persistence layer can hold.
NumRecords == 2

Records == 1..NumRecords

---------------------------------------------------------------------------
(* Python values *)

\* None, for str-valued class attributes (template_name, url, ...).
None == "<None>"

\* bool(v) of a value that is None or a str.
StrTruthy(v) == v # None /\ v # ""

\* Values a hook or a handler returns: None, some other falsy value, or a
\* response object.
PyNone == [kind |-> "None"]
PyFalsy == [kind |-> "falsy"]
Custom == [kind |-> "custom"]
HookResults == {PyNone, PyFalsy, Custom}

\* bool(v) of a returned value.
Truthy(v) == v.kind \notin {"None", "falsy"}

\* The empty dict.
EmptyDict == [key \in {} |-> key]

\* No record (None where a record is expected).
NoObj == 0

\* self.form before get()/post() assigned it.
NoForm == [id |-> 0, obj |-> NoObj, validated |-> FALSE, errors |-> FALSE]

---------------------------------------------------------------------------
(* The class hierarchy *)

ViewClasses ==
    {"TemplateView", "RedirectView", "ListView", "DetailView",
     "FormView", "CreateView", "UpdateView", "DeleteView"}

FormClasses == {"FormView", "CreateView", "UpdateView", "DeleteView"}

\* The method resolution order Python computes (C3) from the class
\* statements' bases, down to View; MethodView is flask's.
MRO(cls) ==
    CASE cls = "TemplateView" -> <<"TemplateView", "View", "MethodView">>
      [] cls = "RedirectView" ->
            <<"RedirectView", "FlashMessageMixin", "View", "MethodView">>
      [] cls = "ListView" -> <<"ListView", "TemplateView", "View", "MethodView">>
      [] cls = "DetailView" ->
            <<"DetailView", "TemplateView", "View", "MethodView">>
      [] cls = "FormView" ->
            <<"FormView", "FlashMessageMixin", "TemplateView", "View",
              "MethodView">>
      [] cls = "CreateView" ->
            <<"CreateView", "FormView", "FlashMessageMixin", "DetailView",
              "TemplateView", "View", "MethodView">>
      [] cls = "UpdateView" ->
            <<"UpdateView", "CreateView", "FormView", "FlashMessageMixin",
              "DetailView", "TemplateView", "View", "MethodView">>
      [] cls = "DeleteView" ->
            <<"DeleteView", "FormView", "FlashMessageMixin", "DetailView",
              "TemplateView", "View", "MethodView">>

\* The methods each class statement defines (those reached through super()
\* or through the verb dispatch).
Defines(c) ==
    CASE c = "View" -> {"dispatch", "dispatch_request"}
      [] c = "MethodView" -> {"dispatch_request"}
      [] c = "TemplateView" -> {"get_default_context", "get"}
      [] c = "RedirectView" -> {"get"}
      [] c = "ListView" -> {"get_default_context"}
      [] c = "DetailView" -> {"get_object", "get_default_context", "get"}
      [] c = "FormView" ->
            {"get_default_context", "get_form", "form_valid_process",
             "form_invalid_process", "get", "post"}
      [] c = "CreateView" -> {"get_form", "form_valid_process"}
      [] c = "DeleteView" -> {"get_form", "form_valid_process"}
      [] OTHER -> {}

\* Attribute lookup: the first class of the instance's MRO, after class
\* `after` ("" for a lookup on self, the calling class for super()), that
\* defines method m.
Resolve(cls, m, after) ==
    LET mro == MRO(cls)
        start == IF after = "" THEN 1
                 ELSE 1 + CHOOSE i \in 1..Len(mro) : mro[i] = after
        cands == {i \in start..Len(mro) : m \in Defines(mro[i])}
    IN  mro[CHOOSE i \in cands : \A j \in cands : i <= j]

\* The verbs flask routes to a view: those the class has a handler for.
Methods(cls) == IF cls \in FormClasses THEN {"GET", "POST"} ELSE {"GET"}

---------------------------------------------------------------------------
(* State *)

VARIABLES
    klass,      \* the deployed handler: class name and class attributes
    request,    \* the request being answered
    inputs,     \* what the subclass's overrides and the form return for it
    self,       \* the view instance's attributes after the request
    calls,      \* the calls made while answering, in order
    flashes,    \* the messages flash() stored while answering
    db,         \* the records held by the persistence session
    response    \* the value returned to flask, or the exception raised

vars == <<klass, request, inputs, self, calls, flashes, db, response>>

---------------------------------------------------------------------------
(* Execution context of one request *)

NoExc == [type |-> "none", msg |-> <<>>]

\* A fresh view instance answering a request against session contents db0.
Start(db0) ==
    [self |-> [args |-> <<>>, kwargs |-> EmptyDict, form |-> NoForm,
               object |-> NoObj],
     calls |-> <<>>, flashes |-> <<>>, db |-> db0, nforms |-> 0,
     exc |-> NoExc, ret |-> PyNone]

Raised(x) == x.exc.type # "none"

\* return v
Return(x, v) == [x EXCEPT !.ret = v]

\* raise e
Raise(x, e) == [x EXCEPT !.exc = e]

\* Record that op was called with arg.
Call(x, op, arg) == [x EXCEPT !.calls = Append(@, [op |-> op, arg |-> arg])]

\* template % name, the template a sequence of words.
Format(template, name) ==
    [i \in 1..Len(template) |-> IF template[i] = "%s" THEN name ELSE template[i]]

ImproperlyConfigured(template, name) ==
    [type |-> "ImproperlyConfigured", msg |-> Format(template, name)]

\* Calling None: 'NoneType' object is not callable.
TypeError == [type |-> "TypeError", msg |-> <<"NoneType", "is not callable">>]

---------------------------------------------------------------------------
(* flask *)

\* flask.render_template(name, **context): a 200 response.
render_template(x, name, context) ==
    Return(Call(x, "render_template", name),
           [kind |-> "render", status |-> 200, template |-> name,
            context |-> context])

\* flask.redirect(location): a 302 response.
redirect(x, location) ==
    Return(Call(x, "redirect", location),
           [kind |-> "redirect", status |-> 302, location |-> location])

\* flask.flash(message, category)
flash(x, message, category) ==
    [Call(x, "flash", <<category, message>>)
        EXCEPT !.flashes = Append(@, <<category, message>>)]

---------------------------------------------------------------------------
(* FlashMessageMixin *)

get_success_message(k, x) == Return(x, k.success_message)

\* Variant of flash_message without the emptiness test.
flash_message_Unconditional(x, category, message) == flash(x, message, category)

flash_message(x, category, message) ==
    IF StrTruthy(message) THEN flash(x, message, category) ELSE x

flash_success_message(k, x) ==
    flash_message(x, "success", get_success_message(k, x).ret)

---------------------------------------------------------------------------
(* Required attributes and overrides *)

\* Record in the log how the call of op that produced r ended: the
\* exception it raised, or the value it returned.
Traced(op, r) ==
    Call(r, op, [exc |-> r.exc, ret |-> IF Raised(r) THEN PyNone ELSE r.ret])

TemplateView_get_template_names(k, x) ==
    Traced("get_template_names",
        IF k.template_name = None
        THEN Raise(x, ImproperlyConfigured(
                        <<"%s", "must define either", "template_name", "or",
                          "get_template_names()">>, k.name))
        ELSE Return(x, k.template_name))

RedirectView_get_url(k, x) ==
    Traced("get_url",
        IF k.url = None
        THEN Raise(x, ImproperlyConfigured(
                        <<"%s", "must define either", "url", "or",
                          "get_url()">>, k.name))
        ELSE Return(x, k.url))

RECURSIVE SortedSeq(_)
SortedSeq(S) ==
    IF S = {} THEN <<>>
    ELSE LET m == CHOOSE a \in S : \A b \in S : a <= b
         IN  <<m>> \o SortedSeq(S \ {m})

\* model.query.all(): every record the session holds, as a list.
query_all(x) == SortedSeq(x.db)

\* Variant of ListView.get_object_list whose error names the library class
\* instead of self.__class__.__name__.
ListView_get_object_list_NamesBase(k, x) ==
    Traced("get_object_list",
        IF k.model = None
        THEN Raise(x, ImproperlyConfigured(
                        <<"%s", "must define either", "model", "or",
                          "get_object_list()">>, k.cls))
        ELSE Return(x, query_all(x)))

ListView_get_object_list(k, x) ==
    Traced("get_object_list",
        IF k.model = None
        THEN Raise(x, ImproperlyConfigured(
                        <<"%s", "must define either", "model", "or",
                          "get_object_list()">>, k.name))
        ELSE Return(x, query_all(x)))

\* DetailView.get_object raises; a subclass's override returns the record
\* it looked up for the request.
DetailView_get_object(k, inp, x) ==
    Traced("get_object",
        IF k.overrides_get_object
        THEN Return(x, inp.obj)
        ELSE Raise(x, ImproperlyConfigured(
                        <<"%s", "must define", "get_object()">>, k.name)))

FormView_get_success_url(k, x) ==
    Traced("get_success_url",
        IF k.success_url = None
        THEN Raise(x, ImproperlyConfigured(
                        <<"%s", "must define either", "success_url", "or",
                          "get_success_url()">>, k.name))
        ELSE Return(x, k.success_url))

---------------------------------------------------------------------------
(* Render context *)

\* The subclass's get_context() hook ({} unless overridden).
get_context(k, x) == Return(x, k.get_context)

\* context = {'view': self, 'kwargs': self.kwargs}; context.update(...)
\* The instance is named by its concrete class.
TemplateView_get_default_context(k, x) ==
    LET context == [view |-> k.name, kwargs |-> x.self.kwargs]
    IN  Return(x, get_context(k, x).ret @@ context)

RECURSIVE get_default_context(_, _, _, _)

\* Variant of ListView.get_default_context that lets a value already in the
\* context stand (setdefault instead of assignment).
ListView_get_default_context_SetDefault(k, inp, x) ==
    LET x1 == get_default_context(k, inp, x,
                  Resolve(k.cls, "get_default_context", "ListView"))
        x2 == IF Raised(x1) THEN x1 ELSE ListView_get_object_list(k, x1)
    IN  IF Raised(x2) THEN x2
        ELSE Return(x2, x1.ret @@ (k.context_object_list_name :> x2.ret))

ListView_get_default_context(k, inp, x) ==
    LET x1 == get_default_context(k, inp, x,
                  Resolve(k.cls, "get_default_context", "ListView"))
        x2 == IF Raised(x1) THEN x1 ELSE ListView_get_object_list(k, x1)
    IN  IF Raised(x2) THEN x2
        ELSE Return(x2, (k.context_object_list_name :> x2.ret) @@ x1.ret)

DetailView_get_default_context(k, inp, x) ==
    LET x1 == get_default_context(k, inp, x,
                  Resolve(k.cls, "get_default_context", "DetailView"))
        x2 == IF Raised(x1) THEN x1 ELSE DetailView_get_object(k, inp, x1)
    IN  IF Raised(x2) THEN x2
        ELSE Return(x2, (k.context_object_name :> x2.ret) @@ x1.ret)

FormView_get_default_context(k, inp, x) ==
    LET x1 == get_default_context(k, inp, x,
                  Resolve(k.cls, "get_default_context", "FormView"))
    IN  IF Raised(x1) THEN x1
        ELSE Return(x1, (k.context_form_name :> x1.self.form) @@ x1.ret)

\* get_default_context as implemented by class c.
get_default_context(k, inp, x, c) ==
    CASE c = "TemplateView" -> TemplateView_get_default_context(k, x)
      [] c = "ListView" -> ListView_get_default_context(k, inp, x)
      [] c = "DetailView" -> DetailView_get_default_context(k, inp, x)
      [] c = "FormView" -> FormView_get_default_context(k, inp, x)

---------------------------------------------------------------------------
(* Forms (the external form library, as the views use it) *)

\* form_class(obj=obj): a new form instance; calling None raises.
form_class(k, x, obj) ==
    IF k.form_class = None
    THEN Raise(x, TypeError)
    ELSE Return([Call(x, "form_class", obj) EXCEPT !.nforms = @ + 1],
                [id |-> x.nforms + 1, obj |-> obj, validated |-> FALSE,
                 errors |-> FALSE])

FormView_get_form(k, x) == form_class(k, x, NoObj)

\* CreateView.get_form and DeleteView.get_form: the argument is evaluated
\* before the call.
ModelView_get_form(k, inp, x) ==
    LET x1 == DetailView_get_object(k, inp, x)
    IN  IF Raised(x1) THEN x1 ELSE form_class(k, x1, x1.ret)

get_form(k, inp, x, c) ==
    CASE c = "FormView" -> FormView_get_form(k, x)
      [] c \in {"CreateView", "DeleteView"} -> ModelView_get_form(k, inp, x)

\* self.form.validate_on_submit(): validates the bound form in place (its
\* errors are set on the instance) and says whether it is valid.
validate_on_submit(inp, x) ==
    Return([Call(x, "validate_on_submit", x.self.form.id)
               EXCEPT !.self.form.validated = TRUE,
                      !.self.form.errors = ~inp.valid],
           inp.valid)

\* self.form.save_obj(session)
save_obj(x) ==
    [Call(x, "save_obj", x.self.form.obj)
        EXCEPT !.db = @ \cup {x.self.form.obj}]

\* self.form.delete_obj(session)
delete_obj(x) ==
    [Call(x, "delete_obj", x.self.form.obj)
        EXCEPT !.db = @ \ {x.self.form.obj}]

---------------------------------------------------------------------------
(* get() *)

TemplateView_get(k, inp, x) ==
    LET x1 == TemplateView_get_template_names(k, x)
        x2 == IF Raised(x1) THEN x1
              ELSE get_default_context(k, inp, x1,
                       Resolve(k.cls, "get_default_context", ""))
    IN  IF Raised(x2) THEN x2 ELSE render_template(x2, x1.ret, x2.ret)

RedirectView_get(k, x) ==
    LET x1 == flash_success_message(k, x)
        x2 == RedirectView_get_url(k, x1)
    IN  IF Raised(x2) THEN x2 ELSE redirect(x2, x2.ret)

RECURSIVE get(_, _, _, _)

DetailView_get(k, inp, x) ==
    LET x1 == DetailView_get_object(k, inp, x)
    IN  IF Raised(x1) THEN x1
        ELSE get(k, inp, [x1 EXCEPT !.self.object = x1.ret],
                 Resolve(k.cls, "get", "DetailView"))

FormView_get(k, inp, x) ==
    LET x1 == get_form(k, inp, x, Resolve(k.cls, "get_form", ""))
    IN  IF Raised(x1) THEN x1
        ELSE get(k, inp, [x1 EXCEPT !.self.form = x1.ret],
                 Resolve(k.cls, "get", "FormView"))

\* get as implemented by class c.
get(k, inp, x, c) ==
    CASE c = "TemplateView" -> TemplateView_get(k, inp, x)
      [] c = "RedirectView" -> RedirectView_get(k, x)
      [] c = "DetailView" -> DetailView_get(k, inp, x)
      [] c = "FormView" -> FormView_get(k, inp, x)

---------------------------------------------------------------------------
(* post() *)

\* The form_valid() hook: None unless the subclass overrides it.
form_valid(inp, x) == Return(Call(x, "form_valid", None), inp.hook)

\* The form_invalid() hook: None unless the subclass overrides it.
form_invalid(inp, x) == Return(Call(x, "form_invalid", None), inp.hook)

FormView_form_valid_process(k, x) ==
    LET x1 == FormView_get_success_url(k, x)
    IN  IF Raised(x1) THEN x1 ELSE redirect(x1, x1.ret)

RECURSIVE form_valid_process(_, _, _)

\* Variant of CreateView.form_valid_process that calls super() before it
\* saves.
CreateView_form_valid_process_SavesLast(k, x) ==
    LET x1 == form_valid_process(k, x,
                  Resolve(k.cls, "form_valid_process", "CreateView"))
        x2 == save_obj(x1)
    IN  IF Raised(x1) THEN x1
        ELSE Return([x2 EXCEPT !.self.object = x2.self.form.obj], x1.ret)

CreateView_form_valid_process(k, x) ==
    LET x1 == save_obj(x)
        x2 == [x1 EXCEPT !.self.object = x1.self.form.obj]
    IN  form_valid_process(k, x2,
            Resolve(k.cls, "form_valid_process", "CreateView"))

DeleteView_form_valid_process(k, x) ==
    LET x1 == delete_obj(x)
        x2 == [x1 EXCEPT !.self.object = NoObj]
    IN  form_valid_process(k, x2,
            Resolve(k.cls, "form_valid_process", "DeleteView"))

\* form_valid_process as implemented by class c.
form_valid_process(k, x, c) ==
    CASE c = "FormView" -> FormView_form_valid_process(k, x)
      [] c = "CreateView" -> CreateView_form_valid_process(k, x)
      [] c = "DeleteView" -> DeleteView_form_valid_process(k, x)

\* Variant of FormView.form_invalid_process that calls self.get() instead
\* of super().get().
FormView_form_invalid_process_SelfGet(k, inp, x) ==
    get(k, inp, x, Resolve(k.cls, "get", ""))

\* super().get(*self.args, **self.kwargs)
FormView_form_invalid_process(k, inp, x) ==
    get(k, inp, x, Resolve(k.cls, "get", "FormView"))

\* Variant of FormView.post that takes a hook's result unless it is None
\* (`is not None` instead of `or`).
FormView_post_IsNotNone(k, inp, x) ==
    LET x1 == get_form(k, inp, x, Resolve(k.cls, "get_form", ""))
        x2 == validate_on_submit(inp, [x1 EXCEPT !.self.form = x1.ret])
        x3 == flash_success_message(k, x2)
        x4 == form_valid(inp, x3)
        x5 == form_invalid(inp, x2)
    IN  IF Raised(x1) THEN x1
        ELSE IF x2.ret
        THEN IF x4.ret # PyNone THEN x4
             ELSE form_valid_process(k, Call(x4, "form_valid_process", None),
                      Resolve(k.cls, "form_valid_process", ""))
        ELSE IF x5.ret # PyNone THEN x5
             ELSE FormView_form_invalid_process(k, inp,
                      Call(x5, "form_invalid_process", None))

\* Variant of FormView.post that flashes the success message after the
\* form_valid() hook.
FormView_post_FlashAfterHook(k, inp, x) ==
    LET x1 == get_form(k, inp, x, Resolve(k.cls, "get_form", ""))
        x2 == validate_on_submit(inp, [x1 EXCEPT !.self.form = x1.ret])
        x3 == form_valid(inp, x2)
        x4 == Return(flash_success_message(k, x3), x3.ret)
        x5 == form_invalid(inp, x2)
    IN  IF Raised(x1) THEN x1
        ELSE IF x2.ret
        THEN IF Truthy(x4.ret) THEN x4
             ELSE form_valid_process(k, Call(x4, "form_valid_process", None),
                      Resolve(k.cls, "form_valid_process", ""))
        ELSE IF Truthy(x5.ret) THEN x5
             ELSE FormView_form_invalid_process(k, inp,
                      Call(x5, "form_invalid_process", None))

\* Variant of FormView.post that flashes the success message before it
\* validates the form.
FormView_post_FlashFirst(k, inp, x) ==
    LET x1 == get_form(k, inp, x, Resolve(k.cls, "get_form", ""))
        x2 == flash_success_message(k, [x1 EXCEPT !.self.form = x1.ret])
        x3 == validate_on_submit(inp, x2)
        x4 == form_valid(inp, x3)
        x5 == form_invalid(inp, x3)
    IN  IF Raised(x1) THEN x1
        ELSE IF x3.ret
        THEN IF Truthy(x4.ret) THEN x4
             ELSE form_valid_process(k, Call(x4, "form_valid_process", None),
                      Resolve(k.cls, "form_valid_process", ""))
        ELSE IF Truthy(x5.ret) THEN x5
             ELSE FormView_form_invalid_process(k, inp,
                      Call(x5, "form_invalid_process", None))

FormView_post(k, inp, x) ==
    LET x1 == get_form(k, inp, x, Resolve(k.cls, "get_form", ""))
        x2 == validate_on_submit(inp, [x1 EXCEPT !.self.form = x1.ret])
        x3 == flash_success_message(k, x2)
        x4 == form_valid(inp, x3)
        x5 == form_invalid(inp, x2)
    IN  IF Raised(x1) THEN x1
        ELSE IF x2.ret
        THEN IF Truthy(x4.ret) THEN x4
             ELSE form_valid_process(k, Call(x4, "form_valid_process", None),
                      Resolve(k.cls, "form_valid_process", ""))
        ELSE IF Truthy(x5.ret) THEN x5
             ELSE FormView_form_invalid_process(k, inp,
                      Call(x5, "form_invalid_process", None))

---------------------------------------------------------------------------
(* Dispatch *)

\* The dispatch() hook: None unless the subclass overrides it.
View_dispatch(inp, x) == Return(Call(x, "dispatch", x.self.kwargs), inp.dispatch)

\* flask's MethodView.dispatch_request: the handler named after the verb.
MethodView_dispatch_request(k, rq, inp, x) ==
    IF rq.method = "GET"
    THEN get(k, inp, Call(x, "get", rq.kwargs), Resolve(k.cls, "get", ""))
    ELSE FormView_post(k, inp, Call(x, "post", rq.kwargs))

\* Variant of View.dispatch_request that runs the dispatch() hook before it
\* stores the URL arguments.
View_dispatch_request_StoresLate(k, rq, inp, x) ==
    LET x1 == View_dispatch(inp, x)
        x2 == [x1 EXCEPT !.self.args = <<>>, !.self.kwargs = rq.kwargs]
    IN  IF Truthy(x2.ret) THEN x2
        ELSE MethodView_dispatch_request(k, rq, inp, x2)

View_dispatch_request(k, rq, inp, x) ==
    LET x1 == [x EXCEPT !.self.args = <<>>, !.self.kwargs = rq.kwargs]
        x2 == View_dispatch(inp, x1)
    IN  IF Truthy(x2.ret) THEN x2
        ELSE MethodView_dispatch_request(k, rq, inp, x2)

---------------------------------------------------------------------------
(* The demo app *)

\* The two routes of greeting_user and the view arguments each URL yields.
Routes ==
    {[path |-> "/", kwargs |-> EmptyDict],
     [path |-> "/Hi", kwargs |-> [greeting |-> "Hi"]],
     [path |-> "/Yo", kwargs |-> [greeting |-> "Yo"]]}

\* Query strings and form bodies: user_name absent, empty or given.
UserNameDicts ==
    {EmptyDict, [user_name |-> ""], [user_name |-> "Bob"],
     [user_name |-> "Alice"]}

\* request.form[key] of a missing key.
BadRequestKeyError == [type |-> "BadRequestKeyError", msg |-> <<"user_name">>]

\* Variant of greeting_user that reads user_name on POST from the combined
\* request.values, where the query string comes first.
greeting_user_Values(rq, x) ==
    LET greeting == IF "greeting" \in DOMAIN rq.kwargs
                    THEN rq.kwargs.greeting ELSE "Hello"
        values == rq.args @@ rq.form
        user_name == IF rq.method = "POST"
                     THEN values.user_name
                     ELSE IF "user_name" \in DOMAIN rq.args
                          THEN rq.args.user_name ELSE ""
    IN  IF rq.method = "POST" /\ "user_name" \notin DOMAIN values
        THEN Raise(x, BadRequestKeyError)
        ELSE render_template(x, "greeting.html",
                 [greeting |-> greeting, user_name |-> user_name])

\* def greeting_user(greeting="Hello")
greeting_user(rq, x) ==
    LET greeting == IF "greeting" \in DOMAIN rq.kwargs
                    THEN rq.kwargs.greeting ELSE "Hello"
        user_name == IF rq.method = "POST"
                     THEN rq.form.user_name
                     ELSE IF "user_name" \in DOMAIN rq.args
                          THEN rq.args.user_name ELSE ""
    IN  IF rq.method = "POST" /\ "user_name" \notin DOMAIN rq.form
        THEN Raise(x, BadRequestKeyError)
        ELSE render_template(x, "greeting.html",
                 [greeting |-> greeting, user_name |-> user_name])

---------------------------------------------------------------------------
(* Deployed handlers *)

\* A view subclass named name with every class attribute at its default.
Defaults(cls, name) ==
    [cls |-> cls, name |-> name, template_name |-> None, url |-> None,
     model |-> None, success_url |-> None, success_message |-> None,
     form_class |-> None, context_object_list_name |-> "object_list",
     context_object_name |-> "object", context_form_name |-> "form",
     overrides_get_object |-> FALSE, get_context |-> EmptyDict]

TemplateNames == {None, "page.html"}
SuccessMessages == {None, "", "Saved"}
Title == [title |-> "Courses"]

TemplateViews ==
    {[Defaults("TemplateView", "About") EXCEPT
        !.template_name = t, !.get_context = g] :
        t \in TemplateNames, g \in {EmptyDict, Title}}

RedirectViews ==
    {[Defaults("RedirectView", "GoHome") EXCEPT
        !.url = u, !.success_message = m] :
        u \in {None, "/home"}, m \in SuccessMessages}

\* get_context() may contribute a value under the object list's own key.
ListViews ==
    {[Defaults("ListView", "CourseList") EXCEPT
        !.template_name = t, !.model = m, !.context_object_list_name = n,
        !.get_context = IF g THEN (n :> <<NoObj>>) @@ Title ELSE EmptyDict] :
        t \in TemplateNames, m \in {None, "Course"},
        n \in {"object_list", "courses"}, g \in BOOLEAN}

DetailViews ==
    {[Defaults("DetailView", "CourseDetail") EXCEPT
        !.template_name = t, !.overrides_get_object = o,
        !.get_context = IF g THEN [object |-> NoObj] ELSE EmptyDict] :
        t \in TemplateNames, o \in BOOLEAN, g \in BOOLEAN}

\* FormView subclasses; contributes says whether get_context() may
\* contribute a value under the form's own key.
FormViewsOf(cls, name, overrides, contributes) ==
    {[Defaults(cls, name) EXCEPT
        !.template_name = t, !.success_url = u, !.success_message = m,
        !.form_class = f, !.overrides_get_object = o,
        !.get_context = IF g THEN [form |-> NoForm] ELSE EmptyDict] :
        t \in TemplateNames, u \in {None, "/courses"}, m \in SuccessMessages,
        f \in {None, "CourseForm"}, o \in overrides, g \in contributes}

FormViews == FormViewsOf("FormView", "ContactForm", {FALSE}, BOOLEAN)
CreateViews == FormViewsOf("CreateView", "CourseAdd", BOOLEAN, {FALSE})
UpdateViews == FormViewsOf("UpdateView", "CourseEdit", BOOLEAN, {FALSE})
DeleteViews == FormViewsOf("DeleteView", "CourseDelete", BOOLEAN, {FALSE})

DemoApp == Defaults("greeting_user", "greeting_user")

Deployments ==
    TemplateViews \cup RedirectViews \cup ListViews \cup DetailViews
    \cup FormViews \cup CreateViews \cup UpdateViews \cup DeleteViews
    \cup {DemoApp}

---------------------------------------------------------------------------
(* Requests *)

\* URL arguments of a view's route.
ViewKwargs == {EmptyDict, [pk |-> "7"]}

ViewRequests(k) ==
    {[method |-> m, kwargs |-> kw] : m \in Methods(k.cls), kw \in ViewKwargs}

\* What the overrides and the form answer during one request: the
\* dispatch() hook's result, whether the submitted form validates, the
\* outcome hook's result, the record get_object() finds.  A value nothing
\* reads in the request is left at its default.
ViewInputs(k, rq) ==
    {[dispatch |-> d, valid |-> v, hook |-> h, obj |-> o] :
        d \in HookResults \ {Custom},
        v \in IF rq.method = "POST" THEN BOOLEAN ELSE {FALSE},
        h \in IF rq.method = "POST" THEN HookResults ELSE {PyNone},
        o \in IF k.overrides_get_object THEN Records ELSE {NoObj}}
    \cup {[dispatch |-> Custom, valid |-> FALSE, hook |-> PyNone,
           obj |-> NoObj]}

NoInputs == [dispatch |-> PyNone, valid |-> FALSE, hook |-> PyNone, obj |-> NoObj]

DemoRequests ==
    {[method |-> m, path |-> r.path, kwargs |-> r.kwargs, args |-> a,
      form |-> f] :
        m \in {"GET", "POST"}, r \in Routes, a \in UserNameDicts,
        f \in UserNameDicts}

NoRequest == [method |-> "none", kwargs |-> EmptyDict]

\* The response flask gets: the returned value, or the exception.
Outcome(x) == IF Raised(x) THEN [kind |-> "raise", exc |-> x.exc] ELSE x.ret

Finish(rq, inp, x) ==
    /\ request' = rq
    /\ inputs' = inp
    /\ self' = x.self
    /\ calls' = x.calls
    /\ flashes' = x.flashes
    /\ db' = x.db
    /\ response' = Outcome(x)
    /\ UNCHANGED klass

\* One request to the deployed view, answered by a fresh instance.
Serve ==
    \E rq \in ViewRequests(klass) :
        \E inp \in ViewInputs(klass, rq) :
            Finish(rq, inp, View_dispatch_request(klass, rq, inp, Start(db)))

TemplateViewRequest == klass.cls = "TemplateView" /\ Serve
RedirectViewRequest == klass.cls = "RedirectView" /\ Serve
ListViewRequest == klass.cls = "ListView" /\ Serve
DetailViewRequest == klass.cls = "DetailView" /\ Serve
FormViewRequest == klass.cls = "FormView" /\ Serve
CreateViewRequest == klass.cls = "CreateView" /\ Serve
UpdateViewRequest == klass.cls = "UpdateView" /\ Serve
DeleteViewRequest == klass.cls = "DeleteView" /\ Serve

\* One request to the demo app.
GreetingUser ==
    /\ klass.cls = "greeting_user"
    /\ \E rq \in DemoRequests :
           Finish(rq, NoInputs, greeting_user(rq, Start(db)))

Init ==
    /\ klass \in Deployments
    /\ request = NoRequest
    /\ inputs = NoInputs
    /\ self = Start({}).self
    /\ calls = <<>>
    /\ flashes = <<>>
    /\ db \in SUBSET Records
    /\ response = PyNone

Next ==
    \/ TemplateViewRequest
    \/ RedirectViewRequest
    \/ ListViewRequest
    \/ DetailViewRequest
    \/ FormViewRequest
    \/ CreateViewRequest
    \/ UpdateViewRequest
    \/ DeleteViewRequest
    \/ GreetingUser

Spec == Init /\ [][Next]_vars

---------------------------------------------------------------------------
(* Properties *)

\* How many times op was called while answering the request.
Count(op) == Cardinality({i \in DOMAIN calls : calls[i].op = op})

\* The position of the first call of op, 0 when it was not called.
Pos(op) ==
    IF Count(op) = 0 THEN 0
    ELSE CHOOSE i \in DOMAIN calls :
            calls[i].op = op /\ \A j \in DOMAIN calls :
                                    calls[j].op = op => i <= j

\* The names of the calls from position n on, in order.
OpsFrom(n) == [i \in 1..(Len(calls) - n + 1) |-> calls[i + n - 1].op]

IsImproperlyConfigured(r) ==
    r.kind = "raise" /\ r.exc.type = "ImproperlyConfigured"

RedirectTo(location) ==
    [kind |-> "redirect", status |-> 302, location |-> location]

\* FormView.post ran for the request.
PostRan == klass.cls \in FormClasses /\ Count("post") = 1

\* FormView.post built the form and validated it.
Validated == PostRan /\ Count("validate_on_submit") = 1

\* The call that persists or removes the record, by view class.
PersistOp == IF klass.cls = "DeleteView" THEN "delete_obj" ELSE "save_obj"

ModelFormClasses == {"CreateView", "UpdateView", "DeleteView"}

---------------------------------------------------------------------------
\* C1 (as stated), for views that define template_name and success_url:
\* every POST whose form was validated ends, when the form is valid, in a
\* redirect to success_url and, when it is invalid, in a 200 render of the
\* template whose context holds the validated form itself.
C1_Original ==
    (Validated /\ klass.template_name # None /\ klass.success_url # None) =>
        IF inputs.valid
        THEN response = RedirectTo(klass.success_url)
        ELSE /\ response.kind = "render"
             /\ response.status = 200
             /\ response.context[klass.context_form_name] = self.form
             /\ self.form.validated

\* C1 (amended): for every POST whose form was built and validated and whose
\* outcome hook returned nothing, exactly one default outcome runs, chosen
\* by validate_on_submit(): valid, a redirect to success_url when it is set
\* and ImproperlyConfigured when it is not; invalid, a 200 render of
\* template_name when it is set (ImproperlyConfigured when it is not) whose
\* context holds under context_form_name the one form instance that post()
\* built and validated, errors included.
C1_PostOutcome ==
    (Validated /\ ~Truthy(inputs.hook)) =>
        /\ Count("form_valid_process") + Count("form_invalid_process") = 1
        /\ Count("form_valid_process") = 1 <=> inputs.valid
        /\ inputs.valid =>
              IF klass.success_url # None
              THEN response = RedirectTo(klass.success_url)
              ELSE IsImproperlyConfigured(response)
        /\ ~inputs.valid =>
              IF klass.template_name # None
              THEN /\ response.kind = "render"
                   /\ response.status = 200
                   /\ response.template = klass.template_name
                   /\ response.context[klass.context_form_name] = self.form
                   /\ self.form.id = 1
                   /\ self.form.validated
                   /\ self.form.errors
                   /\ Count("form_class") = 1
              ELSE IsImproperlyConfigured(response)

\* An invalid POST to a CreateView subclass re-rendered through the
\* DetailView/TemplateView chain, with get_context() contributing nothing.
C1_Witness ==
    /\ Validated
    /\ klass.cls = "CreateView"
    /\ ~inputs.valid
    /\ inputs.hook = PyFalsy
    /\ response.kind = "render"
    /\ response.context.form.errors

\* C2 (as stated): every valid POST to a Create/Update/Delete view saves or
\* deletes the record exactly once before any response is returned.
C2_Original ==
    (Validated /\ klass.cls \in ModelFormClasses /\ inputs.valid) =>
        Count(PersistOp) = 1

\* C2 (amended): on every valid POST to a Create/Update/Delete view whose
\* form_valid() hook returned nothing, the form's record is saved
\* (Create/Update) or deleted (Delete) through the session exactly once,
\* and that happens before the success URL is resolved and the redirect is
\* produced; whatever the response, the session holds the effect.
C2_PersistOnce ==
    (Validated /\ klass.cls \in ModelFormClasses /\ inputs.valid
        /\ ~Truthy(inputs.hook)) =>
        /\ Count("save_obj") + Count("delete_obj") = 1
        /\ Count(PersistOp) = 1
        /\ calls[Pos(PersistOp)].arg = inputs.obj
        /\ self.form.obj = inputs.obj
        /\ Pos(PersistOp) < Pos("get_success_url")
        /\ Pos("redirect") # 0 => Pos(PersistOp) < Pos("redirect")
        /\ IF klass.cls = "DeleteView"
           THEN inputs.obj \notin db /\ self.object = NoObj
           ELSE inputs.obj \in db /\ self.object = inputs.obj

\* A valid POST to a DeleteView subclass that deleted the record and
\* redirected.
C2_Witness ==
    /\ Validated
    /\ klass.cls = "DeleteView"
    /\ inputs.valid
    /\ inputs.hook = PyNone
    /\ Count("delete_obj") = 1
    /\ response = RedirectTo("/courses")

\* C3: on a validated POST only the hook of the branch validate_on_submit()
\* chose runs; a truthy hook result is the response and that branch's
\* default outcome is not invoked; a None or falsy hook result makes that
\* same branch's default outcome run, never the other branch's.
C3_Hooks ==
    Validated =>
        /\ Count("form_valid") = (IF inputs.valid THEN 1 ELSE 0)
        /\ Count("form_invalid") = (IF inputs.valid THEN 0 ELSE 1)
        /\ Truthy(inputs.hook) =>
              /\ response = inputs.hook
              /\ Count("form_valid_process") = 0
              /\ Count("form_invalid_process") = 0
              /\ Count("redirect") + Count("render_template") = 0
              /\ Count("save_obj") + Count("delete_obj") = 0
        /\ ~Truthy(inputs.hook) =>
              /\ response # inputs.hook
              /\ Count("form_valid_process") = (IF inputs.valid THEN 1 ELSE 0)
              /\ Count("form_invalid_process") = (IF inputs.valid THEN 0 ELSE 1)
              /\ inputs.valid => Count("render_template") = 0
              /\ ~inputs.valid => Count("redirect") + Count(PersistOp) = 0

\* A valid POST whose form_valid() hook returned a response of its own.
C3_Witness ==
    /\ Validated
    /\ inputs.valid
    /\ inputs.hook = Custom
    /\ response = Custom
    /\ klass.success_url # None

\* C4: dispatch_request stores the URL arguments on the instance before
\* the dispatch() hook runs; a truthy hook result is the response and no
\* verb handler runs; otherwise the handler of the request's verb, and only
\* it, runs once with the same arguments.
C4_Dispatch ==
    (klass.cls \in ViewClasses /\ request.method # "none") =>
        /\ calls[1] = [op |-> "dispatch", arg |-> request.kwargs]
        /\ Count("dispatch") = 1
        /\ self.args = <<>>
        /\ self.kwargs = request.kwargs
        /\ Truthy(inputs.dispatch) =>
              /\ response = inputs.dispatch
              /\ Count("get") + Count("post") = 0
              /\ Len(calls) = 1
        /\ ~Truthy(inputs.dispatch) =>
              /\ Count("get") = (IF request.method = "GET" THEN 1 ELSE 0)
              /\ Count("post") = (IF request.method = "POST" THEN 1 ELSE 0)
              /\ calls[2].op \in {"get", "post"}
              /\ calls[2].arg = request.kwargs

\* A request with URL arguments that the dispatch() hook answered itself.
C4_Witness ==
    /\ klass.cls = "FormView"
    /\ request.method = "POST"
    /\ request.kwargs = [pk |-> "7"]
    /\ inputs.dispatch = Custom
    /\ response = Custom

\* C5: every GET handled by RedirectView.get flashes the success message
\* once, with category 'success', when it is non-empty and never when it is
\* None or empty; when get_url() has a value the response is a redirect to
\* it, issued after the flash (a missing url raises ImproperlyConfigured).
C5_RedirectGet ==
    (klass.cls = "RedirectView" /\ Count("get") = 1) =>
        /\ flashes = IF StrTruthy(klass.success_message)
                     THEN <<<<"success", klass.success_message>>>>
                     ELSE <<>>
        /\ Count("flash") = Len(flashes)
        /\ klass.url # None =>
              /\ response = RedirectTo(klass.url)
              /\ Count("redirect") = 1
              /\ Count("flash") = 1 => Pos("flash") < Pos("redirect")
        /\ klass.url = None =>
              /\ IsImproperlyConfigured(response)
              /\ Count("redirect") = 0

\* A GET that flashed the message and then redirected.
C5_Witness ==
    /\ klass.cls = "RedirectView"
    /\ Count("get") = 1
    /\ flashes = <<<<"success", "Saved">>>>
    /\ response = RedirectTo("/home")

\* The exception names the concrete class first and mentions attr.
Names(exc, attr) ==
    /\ exc.type = "ImproperlyConfigured"
    /\ exc.msg[1] = klass.name
    /\ \E i \in DOMAIN exc.msg : exc.msg[i] = attr

\* A call ended as the claim says of attribute attr with value `value`:
\* it raised, and the request failed with that exception, or it returned
\* the value.
RaisedOrReturned(end, value, attr) ==
    IF value = None
    THEN Names(end.exc, attr) /\ response = [kind |-> "raise", exc |-> end.exc]
    ELSE end.exc = NoExc /\ end.ret = value

\* Python's == between values of the named types.
PyEq(ta, a, tb, b) == ta = tb /\ a = b

\* How the calls of the required-attribute methods made while answering
\* ended, leaving aside get_object_list() of a view that has a model.
C6_Common ==
    \A i \in DOMAIN calls :
        LET op == calls[i].op
            end == calls[i].arg
        IN  /\ op = "get_template_names" =>
                  RaisedOrReturned(end, klass.template_name, "template_name")
            /\ op = "get_url" => RaisedOrReturned(end, klass.url, "url")
            /\ op = "get_success_url" =>
                  RaisedOrReturned(end, klass.success_url, "success_url")
            /\ (op = "get_object_list" /\ klass.model = None) =>
                  RaisedOrReturned(end, klass.model, "model")
            /\ op = "get_object" =>
                  IF klass.overrides_get_object
                  THEN end.exc = NoExc /\ end.ret = inputs.obj
                  ELSE /\ Names(end.exc, "get_object()")
                       /\ response = [kind |-> "raise", exc |-> end.exc]

\* C6 (as stated): a missing attribute makes its method raise
\* ImproperlyConfigured naming the class and the attribute, and a set
\* attribute is what its method returns: get_object_list() returns model.
C6_Original ==
    /\ C6_Common
    /\ \A i \in DOMAIN calls :
          (calls[i].op = "get_object_list" /\ klass.model # None) =>
              /\ calls[i].arg.exc = NoExc
              /\ PyEq("list", calls[i].arg.ret, "class", klass.model)

\* C6 (amended): a missing template_name, url, model or success_url, or a
\* get_object() that is not overridden, makes the method raise
\* ImproperlyConfigured naming the concrete class and the attribute; when
\* set, get_template_names, get_url and get_success_url return the
\* attribute, an overriding get_object() returns its record, and
\* get_object_list returns model.query.all(), the list of the model's
\* records, not the model; none of them raises.
C6_Configured ==
    /\ C6_Common
    /\ \A i \in DOMAIN calls :
          (calls[i].op = "get_object_list" /\ klass.model # None) =>
              LET list == calls[i].arg.ret
              IN  /\ calls[i].arg.exc = NoExc
                  /\ Len(list) = Cardinality(db)
                  /\ {list[j] : j \in DOMAIN list} = db

\* A GET to a ListView subclass with a model and a template over a
\* non-empty table: get_template_names() and get_object_list() returned.
C6_Witness ==
    /\ klass.cls = "ListView"
    /\ klass.model = "Course"
    /\ db = Records
    /\ Count("get_template_names") = 1
    /\ Count("get_object_list") = 1
    /\ calls[Pos("get_object_list")].arg.ret = SortedSeq(Records)
    /\ response.kind = "render"

\* C7: whenever a ListView renders, its context maps
\* context_object_list_name to the list get_object_list() returned, holding
\* every record of the session once, also when get_context() contributed a
\* value under that key.
C7_ObjectList ==
    (klass.cls = "ListView" /\ response.kind = "render") =>
        LET name == klass.context_object_list_name
            list == response.context[name]
        IN  /\ name \in DOMAIN response.context
            /\ Len(list) = Cardinality(db)
            /\ {list[i] : i \in DOMAIN list} = db
            /\ klass.model # None

\* A render whose get_context() contributed another value under the key.
C7_Witness ==
    /\ klass.cls = "ListView"
    /\ response.kind = "render"
    /\ klass.context_object_list_name \in DOMAIN klass.get_context
    /\ db = Records
    /\ response.context.title = "Courses"

\* C8: greeting_user renders the path segment as greeting, "Hello" when
\* there is none; a GET always renders, with the query string's user_name
\* or "" when it has none; a POST renders the form body's user_name
\* whatever the query string holds.
C8_Greeting ==
    (klass.cls = "greeting_user" /\ request.method # "none") =>
        /\ request.method = "GET" => response.kind = "render"
        /\ (request.method = "POST" /\ "user_name" \in DOMAIN request.form)
              => response.kind = "render"
        /\ response.kind = "render" =>
              /\ response.status = 200
              /\ response.template = "greeting.html"
              /\ response.context.greeting =
                    (IF request.path = "/" THEN "Hello"
                     ELSE request.kwargs.greeting)
              /\ request.method = "GET" =>
                    response.context.user_name =
                        (IF "user_name" \in DOMAIN request.args
                         THEN request.args.user_name ELSE "")
              /\ request.method = "POST" =>
                    /\ "user_name" \in DOMAIN request.form
                    /\ response.context.user_name = request.form.user_name

\* POST / with user_name=Alice in the body and another name in the query
\* string renders ("Hello", "Alice").
C8_Witness ==
    /\ klass.cls = "greeting_user"
    /\ request.method = "POST"
    /\ request.path = "/"
    /\ request.args = [user_name |-> "Bob"]
    /\ request.form = [user_name |-> "Alice"]
    /\ response.kind = "render"
    /\ response.context = [greeting |-> "Hello", user_name |-> "Alice"]

\* The calls a valid POST makes from validation on, in order.
ValidPostCalls ==
    <<"validate_on_submit">>
    \o (IF StrTruthy(klass.success_message) THEN <<"flash">> ELSE <<>>)
    \o <<"form_valid">>
    \o (IF Truthy(inputs.hook) THEN <<>>
        ELSE <<"form_valid_process">>
             \o (IF klass.cls \in ModelFormClasses THEN <<PersistOp>>
                 ELSE <<>>)
             \o <<"get_success_url">>
             \o (IF klass.success_url # None THEN <<"redirect">> ELSE <<>>))

\* C9: a valid POST flashes the success message, then runs form_valid(),
\* then, only if the hook returned nothing, saves or deletes the record and
\* only then resolves the success URL; with success_url missing the request
\* fails with ImproperlyConfigured after the flash and the save or delete,
\* which stay in effect.
C9_Order ==
    (Validated /\ inputs.valid) =>
        /\ OpsFrom(Pos("validate_on_submit")) = ValidPostCalls
        /\ (~Truthy(inputs.hook) /\ klass.success_url = None) =>
              /\ IsImproperlyConfigured(response)
              /\ Names(response.exc, "success_url")
              /\ flashes = IF StrTruthy(klass.success_message)
                           THEN <<<<"success", klass.success_message>>>>
                           ELSE <<>>
              /\ klass.cls \in {"CreateView", "UpdateView"} =>
                    inputs.obj \in db
              /\ klass.cls = "DeleteView" => inputs.obj \notin db

\* A valid POST to an UpdateView subclass without success_url: the message
\* is flashed and the record saved, and the request fails.
C9_Witness ==
    /\ Validated
    /\ inputs.valid
    /\ klass.cls = "UpdateView"
    /\ klass.success_url = None
    /\ flashes = <<<<"success", "Saved">>>>
    /\ Count("save_obj") = 1
    /\ inputs.obj \in db
    /\ IsImproperlyConfigured(response)

\* The request just answered was to a form view and was not a valid POST.
NotValidPost ==
    /\ klass.cls \in FormClasses
    /\ request.method # "none"
    /\ ~(Validated /\ inputs.valid)

\* C10: a GET and an invalid POST to a form view flash nothing, call neither
\* save_obj nor delete_obj and leave the session's records as they were,
\* whatever form_invalid() returns; a valid POST flashes at most once.
C10_Frame ==
    [][/\ NotValidPost' =>
            /\ flashes' = <<>>
            /\ Count("flash")' = 0
            /\ (Count("save_obj") + Count("delete_obj"))' = 0
            /\ db' = db
       /\ (Validated /\ inputs.valid)' =>
            /\ Len(flashes') <= 1
            /\ Count("flash")' = Len(flashes')]_vars

\* An invalid POST to a DeleteView subclass with a success message, whose
\* form_invalid() hook returned a response: nothing flashed, nothing deleted.
C10_Witness ==
    /\ klass.cls = "DeleteView"
    /\ Validated
    /\ ~inputs.valid
    /\ inputs.hook = Custom
    /\ klass.success_message = "Saved"
    /\ inputs.obj \in db
    /\ flashes = <<>>
    /\ response = Custom

====
